---- MODULE Spec2Model ----
(***************************************************************************)
(* Model of the Mercil backend: the image API (src/api/images.py) and the  *)
(* data loader (src/data_loader.py).                                       *)
(*                                                                         *)
(* Nullable values (SQL NULL, Python None) are options: NULL is the empty  *)
(* tuple and Some(v) the one-element tuple holding v.                      *)
(*                                                                         *)
(* Image API requests are handled by workers that share the database and   *)
(* the upload directory.  A worker's steps are the statements of a handler *)
(* that touch the database or the directory; steps of different workers    *)
(* interleave (several server processes on one database).  An UPDATE and   *)
(* the commit that follows it are one step: the uncommitted row is visible *)
(* to nobody and the row lock only delays other writers, so every outcome  *)
(* of the two-step version is an outcome of the one-step version.          *)
(*                                                                         *)
(* The vector searches (search_by_image, search_similar_assets) run on a   *)
(* table of three rows, each with or without an embedding.  A query's      *)
(* result is any sequence the database may return for it: rows of equal    *)
(* sort key come in any order, and the query of search_similar_assets runs *)
(* either as a scan of the table or on the ivfflat index.  Similarities    *)
(* are counted in hundredths.                                              *)
(***************************************************************************)
EXTENDS Integers, Sequences, FiniteSets, TLC

VARIABLES
    assets,     \* the assets table: id -> [images, tags, image_embeddings]
    files,      \* the paths present in the upload directory
    pc,         \* per worker: the handler step it is at
    req,        \* per worker: the request's arguments and the handler's locals
    resp,       \* per worker: the last response it sent
    nreq,       \* requests received since the server started
    nuuid,      \* uuid4() values drawn so far
    log         \* the image-list mutations answered with success, in commit order

imgvars == <<assets, files, pc, req, resp, nreq, nuuid, log>>

VARIABLES
    lpc,          \* the data loader's position
    n_assets,     \* len(assets_data)
    idx,          \* the loop index of load_assets_from_json (from 1)
    asset,        \* the record being processed
    embedding,    \* its text embedding
    coords,       \* what geocode_address returned last
    session,      \* the rows inserted in the session's open transaction
    tx_aborted,   \* the server has aborted the session's transaction
    table,        \* the rows of the assets table the loader has committed
    out,          \* the line printed per record: [idx, kind, error]
    clock,        \* seconds slept so far
    max_retries,  \* geocode_address: its max_retries argument
    attempt,      \* geocode_address: its loop variable
    calls,        \* geocode_address: the service calls of the current invocation
    return_to,    \* geocode_address: where its caller continues
    steps,        \* the steps the record being processed has completed
    geocoded_at,  \* the time of the last service call that found an address
    search        \* search_similar_assets: its position, arguments and result

loadvars == <<lpc, n_assets, idx, asset, embedding, coords, session, tx_aborted,
              table, out, clock, max_retries, attempt, calls, return_to, steps,
              geocoded_at, search>>

vars == <<imgvars, loadvars>>

-----------------------------------------------------------------------------
(* Bounds *)

\* Requests the workers receive in one run.
MaxRequests == 3

Workers == {1, 2}

\* The ids of the rows of the assets table.
StoredIds == {1, 2}

\* The asset ids requests name: 3 is in no row.
RequestIds == {1, 2, 3}

\* image_index values requests name (negative ones included).
Indexes == {-1, 0, 1}

NULL == <<>>
Some(v) == <<v>>

\* The uploads requests carry: declared filename, caption form field, and what
\* the image tagger answers for the file's bytes (its tags and its embedding).
Uploads ==
    { [filename |-> "a.jpg", caption |-> NULL,
       tags |-> <<>>, embedding |-> <<1, 0>>],
      [filename |-> "b", caption |-> Some("roof"),
       tags |-> <<"shelter">>, embedding |-> <<0, 1>>] }

-----------------------------------------------------------------------------
(* Helpers *)

\* SQL COALESCE(x, y) on options.
Coalesce(x, y) == IF x # NULL THEN x ELSE y

\* COALESCE(col, default) / Python `col or []` where the default is a value.
OrElse(x, default) == IF x # NULL THEN x[1] ELSE default

\* os.path.splitext(file.filename)[1]
SplitExt(filename) ==
    CASE filename = "a.jpg" -> ".jpg"
      [] filename = "b" -> ""

\* f"{asset_id}_{uuid.uuid4()}{file_ext}"
UniqueFilename(asset_id, uuid, filename) == <<asset_id, uuid, SplitExt(filename)>>

\* os.path.join(UPLOAD_DIR, unique_filename)
FilePath(unique_filename) == <<"uploads/", unique_filename>>

\* f"/uploads/{unique_filename}"
Url(unique_filename) == <<"/uploads/", unique_filename>>

\* image_to_delete['url'].replace('/uploads/', 'uploads/')
UrlToPath(url) == IF url[1] = "/uploads/" THEN <<"uploads/", url[2]>> ELSE url

\* The image object of step 4 of upload_image.
ImageData(unique_filename, file) ==
    [url |-> Url(unique_filename), filename |-> file.filename,
     caption |-> file.caption]

\* Python list indexing: the 1-based position images[i] denotes, 0 for IndexError.
PyPos(images, i) ==
    IF i >= 0
    THEN (IF i < Len(images) THEN i + 1 ELSE 0)
    ELSE (IF -i <= Len(images) THEN Len(images) + i + 1 ELSE 0)

\* The sequence without its element at 1-based position k.
RemoveAt(s, k) == [j \in 1..(Len(s) - 1) |-> IF j < k THEN s[j] ELSE s[j + 1]]

\* Mutant of Pop: images.pop(), whatever the index.
PopLast(images, i) == RemoveAt(images, Len(images))

\* images.pop(image_index)
Pop(images, i) == RemoveAt(images, PyPos(images, i))

\* Mutant of AppendImage: the new image is put in front of the list.
AppendImageInFront(row, image_json, tags, image_embedding) ==
    [images |-> Some(image_json \o OrElse(row.images, <<>>)),
     tags |-> Some(OrElse(row.tags, <<>>) \o tags),
     image_embeddings |-> Coalesce(image_embedding, row.image_embeddings)]

\* Mutant of AppendImage: image_embeddings = %s::vector, without COALESCE.
AppendImageNoCoalesce(row, image_json, tags, image_embedding) ==
    [images |-> Some(OrElse(row.images, <<>>) \o image_json),
     tags |-> Some(OrElse(row.tags, <<>>) \o tags),
     image_embeddings |-> image_embedding]

\* The UPDATE of upload_image, on one row.
AppendImage(row, image_json, tags, image_embedding) ==
    [images |-> Some(OrElse(row.images, <<>>) \o image_json),
     tags |-> Some(OrElse(row.tags, <<>>) \o tags),
     image_embeddings |-> Coalesce(image_embedding, row.image_embeddings)]

\* Mutant of SetImages: the image embedding is cleared with the last image.
SetImagesClearEmbedding(row, images) ==
    [images |-> Some(images), tags |-> row.tags,
     image_embeddings |-> IF images = <<>> THEN NULL ELSE row.image_embeddings]

\* The UPDATE of delete_image, on one row.
SetImages(row, images) == [row EXCEPT !.images = Some(images)]

-----------------------------------------------------------------------------
(* Requests and responses *)

NoUpload == [filename |-> "", caption |-> NULL, tags |-> <<>>, embedding |-> <<>>]

IdleReq ==
    [op |-> "none", asset_id |-> 0, image_index |-> 0,
     file |-> NoUpload, auto_tag |-> FALSE, unique_filename |-> NULL,
     images |-> <<>>, image_data |-> NULL, tags |-> <<>>,
     image_embedding |-> NULL]

NoResp ==
    [op |-> "none", asset_id |-> 0, image_index |-> 0, status |-> 0, detail |-> "",
     image |-> NULL, images |-> <<>>, tags |-> <<>>, count |-> 0]

\* raise HTTPException(status_code=..., detail=...)
HTTPException(status_code, detail) == [status |-> status_code, detail |-> detail]

\* A failure below the handler: database driver, file system, model.
Error(detail) == [status |-> 0, detail |-> detail]

\* f"{status_code}: {detail}", for the HTTPExceptions the handlers raise.
StatusAndDetail(e) ==
    CASE e.detail = "Asset not found" -> "404: Asset not found"
      [] e.detail = "Image not found" -> "404: Image not found"

\* str(e), as a set: of an exception that is no HTTPException its message; of
\* an HTTPException "status: detail" where the installed Starlette gives the
\* class a __str__, and the empty string where it does not.
StrException(e) == IF e.status = 0 THEN {e.detail} ELSE {StatusAndDetail(e), ""}

\* except Exception as e: raise HTTPException(status_code=500, detail=str(e))
\* The exceptions the handler can raise for e.
ExceptHandler(e) == { HTTPException(500, detail) : detail \in StrException(e) }

\* The handler of worker p ends by raising e inside its try block.
Raise(p, r, e) ==
    \E raised \in ExceptHandler(e) :
        /\ pc' = [pc EXCEPT ![p] = "idle"]
        /\ req' = [req EXCEPT ![p] = IdleReq]
        /\ resp' = [resp EXCEPT ![p] =
               [NoResp EXCEPT !.op = r.op, !.asset_id = r.asset_id,
                              !.image_index = r.image_index,
                              !.status = raised.status,
                              !.detail = raised.detail]]

\* The handler of worker p returns a body.
Return(p, r, image, images, tags, count) ==
    /\ pc' = [pc EXCEPT ![p] = "idle"]
    /\ req' = [req EXCEPT ![p] = IdleReq]
    /\ resp' = [resp EXCEPT ![p] =
           [op |-> r.op, asset_id |-> r.asset_id,
            image_index |-> r.image_index, status |-> 200,
            detail |-> "", image |-> image, images |-> images, tags |-> tags,
            count |-> count]]

\* The handler of worker p goes on to its next step.
Goto(p, r, step) ==
    /\ pc' = [pc EXCEPT ![p] = step]
    /\ req' = [req EXCEPT ![p] = r]
    /\ resp' = [resp EXCEPT ![p] = NoResp]

-----------------------------------------------------------------------------
(* upload_image *)

\* Step 1: connect and SELECT id FROM assets WHERE id = asset_id.
UploadSelect(p) ==
    /\ pc[p] = "idle"
    /\ nreq < MaxRequests
    /\ nreq' = nreq + 1
    /\ \E asset_id \in RequestIds, up \in Uploads, auto_tag \in BOOLEAN :
         LET r == [IdleReq EXCEPT !.op = "upload",
                                  !.asset_id = asset_id, !.file = up,
                                  !.auto_tag = auto_tag] IN
         \/ \* the connection or the SELECT fails
            Raise(p, r, Error("database error"))
         \/ IF asset_id \notin DOMAIN assets
            THEN Raise(p, r, HTTPException(404, "Asset not found"))
            ELSE Goto(p, r, "u_write")
    /\ UNCHANGED <<assets, files, nuuid, log, loadvars>>

\* Step 2, up to the await: a fresh name is drawn and open(file_path, "wb")
\* creates the file, or raises and creates nothing.
UploadWriteFile(p) ==
    /\ pc[p] = "u_write"
    /\ LET r == req[p]
           name == UniqueFilename(r.asset_id, nuuid + 1, r.file.filename) IN
         /\ nuuid' = nuuid + 1
         /\ \/ /\ files' = files \cup {FilePath(name)}
               /\ Goto(p, [r EXCEPT !.unique_filename = Some(name)], "u_read")
            \/ /\ Raise(p, r, Error("open error"))
               /\ UNCHANGED files
    /\ UNCHANGED <<assets, nreq, log, loadvars>>

\* Step 2, from the await: content = await file.read(); f.write(content).
\* When either raises the created file stays.
UploadRead(p) ==
    /\ pc[p] = "u_read"
    /\ \/ Goto(p, req[p], "u_tag")
       \/ Raise(p, req[p], Error("read error"))
    /\ UNCHANGED <<assets, files, nreq, nuuid, log, loadvars>>

\* Steps 3 and 4: tags and embedding of the file when auto_tag, the image object.
UploadTag(p) ==
    /\ pc[p] = "u_tag"
    /\ LET r == req[p]
           data == ImageData(r.unique_filename[1], r.file) IN
         IF r.auto_tag
         THEN \/ Goto(p, [r EXCEPT !.tags = r.file.tags,
                                    !.image_embedding = Some(r.file.embedding),
                                    !.image_data = Some(data)], "u_update")
              \/ Raise(p, r, Error("image tagger error"))
         ELSE Goto(p, [r EXCEPT !.image_data = Some(data)], "u_update")
    /\ UNCHANGED <<assets, files, nreq, nuuid, log, loadvars>>

\* Step 5: the UPDATE ... RETURNING and the commit.
UploadUpdate(p) ==
    /\ pc[p] = "u_update"
    /\ LET r == req[p]
           updated == AppendImage(assets[r.asset_id], <<r.image_data[1]>>,
                                  r.tags, r.image_embedding) IN
         \/ /\ assets' = [assets EXCEPT ![r.asset_id] = updated]
            /\ log' = Append(log, [op |-> "upload", asset_id |-> r.asset_id,
                                    image |-> r.image_data[1],
                                    image_index |-> 0])
            /\ Return(p, r, r.image_data, <<>>, r.tags, Len(updated.images[1]))
         \/ /\ Raise(p, r, Error("database error"))
            /\ UNCHANGED <<assets, log>>
    /\ UNCHANGED <<files, nreq, nuuid, loadvars>>

-----------------------------------------------------------------------------
(* delete_image *)

\* Step 1: SELECT images, the two checks, the image to delete and its path.
DeleteSelect(p) ==
    /\ pc[p] = "idle"
    /\ nreq < MaxRequests
    /\ nreq' = nreq + 1
    /\ \E asset_id \in RequestIds, image_index \in Indexes :
         LET r == [IdleReq EXCEPT !.op = "delete",
                                  !.asset_id = asset_id,
                                  !.image_index = image_index] IN
         \/ \* the connection or the SELECT fails
            Raise(p, r, Error("database error"))
         \/ IF asset_id \notin DOMAIN assets
            THEN Raise(p, r, HTTPException(404, "Asset not found"))
            ELSE LET images == OrElse(assets[asset_id].images, <<>>) IN
                 IF image_index >= Len(images)
                 THEN Raise(p, r, HTTPException(404, "Image not found"))
                 ELSE IF PyPos(images, image_index) = 0
                 THEN Raise(p, r, Error("list index out of range"))
                 ELSE Goto(p, [r EXCEPT !.images = images,
                                        !.image_data =
                                            Some(images[PyPos(images, image_index)])],
                           "d_exists")
    /\ UNCHANGED <<assets, files, nuuid, log, loadvars>>

\* Step 2: os.path.exists(file_path).  It answers False for a file that is
\* absent, and for one that is present when the stat of the path is refused.
DeleteExists(p) ==
    /\ pc[p] = "d_exists"
    /\ \/ /\ UrlToPath(req[p].image_data[1].url) \in files
          /\ Goto(p, req[p], "d_remove")
       \/ Goto(p, req[p], "d_update")
    /\ UNCHANGED <<assets, files, nreq, nuuid, log, loadvars>>

\* Step 2: os.remove(file_path).  It raises when the file is gone by now, and
\* when the removal is refused, whether the file is there or not.
DeleteRemove(p) ==
    /\ pc[p] = "d_remove"
    /\ LET path == UrlToPath(req[p].image_data[1].url) IN
         \/ /\ path \in files
            /\ files' = files \ {path}
            /\ Goto(p, req[p], "d_update")
         \/ /\ path \notin files
            /\ Raise(p, req[p], Error("No such file or directory"))
            /\ UNCHANGED files
         \/ /\ Raise(p, req[p], Error("remove error"))
            /\ UNCHANGED files
    /\ UNCHANGED <<assets, nreq, nuuid, log, loadvars>>

\* Step 3: images.pop(image_index), the UPDATE and the commit.
DeleteUpdate(p) ==
    /\ pc[p] = "d_update"
    /\ LET r == req[p]
           images == Pop(r.images, r.image_index) IN
         \/ /\ assets' = [assets EXCEPT ![r.asset_id] = SetImages(@, images)]
            /\ log' = Append(log, [op |-> "delete", asset_id |-> r.asset_id,
                                    image |-> r.image_data[1],
                                    image_index |-> r.image_index])
            /\ Return(p, r, NULL, <<>>, <<>>, Len(images))
         \/ /\ Raise(p, r, Error("database error"))
            /\ UNCHANGED <<assets, log>>
    /\ UNCHANGED <<files, nreq, nuuid, loadvars>>

-----------------------------------------------------------------------------
(* get_asset_images *)

GetAssetImages(p) ==
    /\ pc[p] = "idle"
    /\ nreq < MaxRequests
    /\ nreq' = nreq + 1
    /\ \E asset_id \in RequestIds :
         LET r == [IdleReq EXCEPT !.op = "get",
                                  !.asset_id = asset_id] IN
         \/ \* the connection or the SELECT fails
            Raise(p, r, Error("database error"))
         \/ IF asset_id \notin DOMAIN assets
            THEN Raise(p, r, HTTPException(404, "Asset not found"))
            ELSE LET row == assets[asset_id] IN
                 Return(p, r, NULL, OrElse(row.images, <<>>), OrElse(row.tags, <<>>),
                        IF row.images # NULL /\ row.images[1] # <<>>
                        THEN Len(row.images[1]) ELSE 0)
    /\ UNCHANGED <<assets, files, nuuid, log, loadvars>>

-----------------------------------------------------------------------------
(* geocode_address *)

\* Records of one batch.
MaxBatch == 3

\* The largest max_retries argument geocode_address is called with directly.
MaxRetriesArg == 4

\* def geocode_address(address, max_retries: int = 3)
DefaultMaxRetries == 3

\* What geolocator.geocode answers with when it finds the address.
Locations ==
    { [latitude |-> 13, longitude |-> 100], [latitude |-> 18, longitude |-> 98] }

\* The outcomes of one geolocator.geocode call: a location, None, or a raise.
ServiceOutcomes ==
    { [kind |-> "found", location |-> Some(l)] : l \in Locations }
    \cup { [kind |-> k, location |-> NULL] :
             k \in {"none", "GeocoderTimedOut", "GeocoderServiceError"} }

\* except (GeocoderTimedOut, GeocoderServiceError)
Caught(outcome) == outcome.kind \in {"GeocoderTimedOut", "GeocoderServiceError"}

\* Mutant of RetryAgain: if attempt < max_retries.
RetryAgainOffByOne(a, retries) == a < retries

\* if attempt < max_retries - 1
RetryAgain(a, retries) == a < retries - 1

\* Mutant of Backoff: time.sleep(2 * attempt).
BackoffLinear(a) == 2 * a

\* time.sleep(2 ** attempt)
Backoff(a) == 2 ^ a

\* return (location.latitude, location.longitude)
LatLon(location) == <<location.latitude, location.longitude>>

\* One iteration of the retry loop, or the end of the loop.
GeocodeAttempt ==
    /\ lpc = "geocode"
    /\ IF attempt >= max_retries
       THEN \* range(max_retries) is exhausted: the function ends, returning None
            /\ coords' = NULL
            /\ lpc' = return_to
            /\ steps' = Append(steps, "Geocoded")
            /\ UNCHANGED <<attempt, calls, clock, geocoded_at>>
       ELSE \E o \in ServiceOutcomes :
            /\ calls' = Append(calls, [at |-> clock, outcome |-> o])
            /\ IF o.kind = "found"
               THEN /\ coords' = Some(LatLon(o.location[1]))
                    /\ lpc' = return_to
                    /\ steps' = Append(steps, "Geocoded")
                    /\ geocoded_at' = Some(clock)
                    /\ UNCHANGED <<attempt, clock>>
               ELSE IF ~Caught(o)
               THEN /\ coords' = NULL
                    /\ lpc' = return_to
                    /\ steps' = Append(steps, "Geocoded")
                    /\ UNCHANGED <<attempt, clock, geocoded_at>>
               ELSE IF RetryAgain(attempt, max_retries)
               THEN /\ clock' = clock + Backoff(attempt)
                    /\ attempt' = attempt + 1
                    /\ UNCHANGED <<coords, lpc, steps, geocoded_at>>
               ELSE /\ coords' = NULL
                    /\ lpc' = return_to
                    /\ steps' = Append(steps, "Geocoded")
                    /\ UNCHANGED <<attempt, clock, geocoded_at>>
    /\ UNCHANGED <<n_assets, idx, asset, embedding, session, tx_aborted, table,
                   out, max_retries, return_to, search, imgvars>>

-----------------------------------------------------------------------------
(* load_assets_from_json *)

\* The elements of the JSON array: objects (key -> string or null), and an
\* element that is no object.
Records ==
    { [kind |-> "object",
       fields |-> [name |-> Some("Central Shelter"),
                   description |-> Some("emergency housing"),
                   address |-> Some("123 Main St"),
                   category |-> Some("shelter")]],
      [kind |-> "object", fields |-> [description |-> Some("")]],
      [kind |-> "object",
       fields |-> [name |-> NULL, address |-> Some("123 Main St")]],
      [kind |-> "string", fields |-> <<>>] }

NoAsset == [kind |-> "none", fields |-> <<>>]

\* asset.get(key, default)
Get(a, key, default) == IF key \in DOMAIN a.fields THEN a.fields[key] ELSE default

\* Python's str() of a value inside an f-string.
Str(v) == IF v = NULL THEN "None" ELSE v[1]

\* text_to_embed = f"{name}. {description}"
TextToEmbed(name, description) == <<Str(name), ". ", Str(description)>>

\* model.encode(text).tolist(): a vector determined by the text.
Encode(text) == IF text[1] = "Central Shelter" THEN <<1, 0>> ELSE <<0, 1>>

\* Python truthiness of a str or None.
Truthy(v) == v # NULL /\ v[1] # ""

\* Mutant of LocationWkt: POINT(0 0) when there are no coordinates.
LocationWktOrigin(c) ==
    IF c # NULL THEN Some([x |-> c[1][2], y |-> c[1][1]])
    ELSE Some([x |-> 0, y |-> 0])

\* location_wkt = f"POINT({coords[1]} {coords[0]})" if coords else None
LocationWkt(c) == IF c # NULL THEN Some([x |-> c[1][2], y |-> c[1][1]]) ELSE NULL

\* ST_GeogFromText(:location): a point's x is its longitude, its y its latitude.
ST_GeogFromText(wkt) == [longitude |-> wkt.x, latitude |-> wkt.y]

\* Mutant of InsertRow: the embedding column left out of the INSERT.
InsertRowNoEmbedding(a, e, c) ==
    [name |-> Get(a, "name", Some("")),
     description |-> Get(a, "description", Some("")),
     address |-> Get(a, "address", Some("")),
     category |-> Get(a, "category", Some("general")),
     location |-> IF LocationWkt(c) # NULL
                  THEN Some(ST_GeogFromText(LocationWkt(c)[1])) ELSE NULL,
     embedding |-> NULL,
     metadata |-> a]

\* The row the INSERT of the record adds (the one with or without location).
InsertRow(a, e, c) ==
    [name |-> Get(a, "name", Some("")),
     description |-> Get(a, "description", Some("")),
     address |-> Get(a, "address", Some("")),
     category |-> Get(a, "category", Some("general")),
     location |-> IF LocationWkt(c) # NULL
                  THEN Some(ST_GeogFromText(LocationWkt(c)[1])) ELSE NULL,
     embedding |-> e,
     metadata |-> a]

\* name TEXT NOT NULL
ViolatesConstraint(row) == row.name = NULL

\* What session.execute(INSERT) can end with: "ok"; "client_error", raised by
\* the driver before the statement reaches the server; "server_error", the
\* server rejects the statement and aborts the transaction it is part of.  In
\* an aborted transaction the server rejects every statement that reaches it.
InsertOutcomes(row, aborted) ==
    IF aborted \/ ViolatesConstraint(row)
    THEN {"client_error", "server_error"}
    ELSE {"ok", "client_error", "server_error"}

\* except Exception as e: print(...); continue
Skip(e) ==
    /\ out' = Append(out, [idx |-> idx, kind |-> "error", error |-> e])
    /\ idx' = idx + 1
    /\ lpc' = "loop"

\* Top of the loop body: the record's fields and its text embedding.
LoadRecord ==
    /\ lpc = "loop"
    /\ idx <= n_assets
    /\ \E a \in Records :
         /\ asset' = a
         /\ IF a.kind # "object"
            THEN \* asset.get raises in the try block and again in the except
                 \* block: the exception leaves the function, nothing committed
                 /\ lpc' = "raised"
                 /\ steps' = <<>>
                 /\ UNCHANGED <<idx, embedding, coords, out, attempt, calls>>
            ELSE LET name == Get(a, "name", Some(""))
                     description == Get(a, "description", Some(""))
                     address == Get(a, "address", Some("")) IN
                 \/ \* model.encode raises
                    /\ Skip("encode")
                    /\ steps' = <<"Parsed">>
                    /\ UNCHANGED <<embedding, coords, attempt, calls>>
                 \/ /\ embedding' = Some(Encode(TextToEmbed(name, description)))
                    /\ steps' = <<"Parsed", "Embedded">>
                    /\ IF Truthy(address)
                       THEN /\ lpc' = "geocode"
                            /\ attempt' = 0
                            /\ calls' = <<>>
                            /\ UNCHANGED coords
                       ELSE /\ lpc' = "insert"
                            /\ coords' = NULL
                            /\ UNCHANGED <<attempt, calls>>
                    /\ UNCHANGED <<idx, out>>
    /\ UNCHANGED <<n_assets, session, tx_aborted, table, clock, max_retries,
                   return_to, geocoded_at, search, imgvars>>

\* The INSERT, the "Inserted" line and the delay after a geocoded record.
Insert ==
    /\ lpc = "insert"
    /\ LET row == InsertRow(asset, embedding, coords) IN
       \E o \in InsertOutcomes(row, tx_aborted) :
         IF o = "ok"
         THEN /\ session' = Append(session, row)
              /\ out' = Append(out, [idx |-> idx, kind |-> "inserted", error |-> ""])
              /\ clock' = IF coords # NULL THEN clock + 1 ELSE clock
              /\ idx' = idx + 1
              /\ lpc' = "loop"
              /\ steps' = Append(steps, "Stored")
              /\ UNCHANGED tx_aborted
         ELSE /\ Skip(o)
              /\ tx_aborted' = (tx_aborted \/ o = "server_error")
              /\ UNCHANGED <<session, clock, steps>>
    /\ UNCHANGED <<n_assets, asset, embedding, coords, table, max_retries,
                   attempt, calls, return_to, geocoded_at, search, imgvars>>

\* await session.commit(): COMMIT of an aborted transaction rolls it back.
\* When the commit raises (the connection is lost) the exception leaves the
\* function, which is outside every try here, and the session is closed
\* without a commit.
Commit ==
    /\ lpc = "loop"
    /\ idx > n_assets
    /\ \/ /\ table' = IF tx_aborted THEN <<>> ELSE session
          /\ lpc' = "done"
       \/ /\ table' = table
          /\ lpc' = "raised"
    /\ UNCHANGED <<n_assets, idx, asset, embedding, coords, session, tx_aborted,
                   out, clock, max_retries, attempt, calls, return_to, steps,
                   geocoded_at, search, imgvars>>

-----------------------------------------------------------------------------
(* Vector search: search_by_image and search_similar_assets *)

\* The ids of the rows of the assets table the searches run on.
SearchIds == {1, 2, 3}

\* The embeddings the rows hold (two dimensions stand for the 384 or 512).
Vectors == {<<1, 0>>, <<3, 4>>}

\* The limit arguments (zero and a negative one included).
Limits == {-1, 0, 2}

\* Searches (of either kind) in one run.
MaxSearches == 2

\* The query strings of search_similar_assets.
Queries == {"Central Shelter", "flood relief"}

\* The number 1 of "1 - distance": distances and similarities are counted in
\* hundredths.
Unit == 100

Dot(a, b) == a[1] * b[1] + a[2] * b[2]

\* The Euclidean norm (of a vector whose norm is an integer).
Norm(v) == CHOOSE n \in 0..Dot(v, v) : n * n = Dot(v, v)

\* a <=> b, pgvector's cosine distance: NULL when an operand is NULL.
CosineDistance(a, b) ==
    IF a = NULL \/ b = NULL THEN NULL
    ELSE Some(Unit - (Unit * Dot(a[1], b[1])) \div (Norm(a[1]) * Norm(b[1])))

\* 1 - (a <=> b) as similarity
Similarity(a, b) ==
    IF CosineDistance(a, b) = NULL THEN NULL
    ELSE Some(Unit - CosineDistance(a, b)[1])

\* The sequences that list every element of the set S once.
Enumerations(S) ==
    { s \in [1..Cardinality(S) -> S] :
        \A i, j \in 1..Cardinality(S) : i # j => s[i] # s[j] }

\* ORDER BY key DESC: key x sorts strictly before key y (NULLs come first).
DescBefore(x, y) == IF x = NULL THEN y # NULL ELSE y # NULL /\ x[1] > y[1]

\* ORDER BY key: key x sorts strictly before key y (NULLs come last).
AscBefore(x, y) == x # NULL /\ (y = NULL \/ x[1] < y[1])

\* LIMIT n, for n >= 0.
Limit(rows, n) == SubSeq(rows, 1, IF n < Len(rows) THEN n ELSE Len(rows))

\* Mutant of HasImageEmbedding: the query without its WHERE clause.
NoWhere(row) == TRUE

\* WHERE image_embeddings IS NOT NULL
HasImageEmbedding(row) == row.image_embeddings # NULL

\* What the query of search_by_image can return: the rows that pass the WHERE
\* clause, ordered by similarity descending, cut at the limit.  ORDER BY names
\* no second key, so rows of equal similarity come in any order.
ImageQuery(store, query_embedding, limit) ==
    LET ids == {a \in DOMAIN store : HasImageEmbedding(store[a])}
        similarity(a) == Similarity(store[a].image_embeddings, query_embedding)
        ordered == { s \in Enumerations(ids) :
                       \A i, j \in 1..Len(s) :
                           i < j => ~DescBefore(similarity(s[j]), similarity(s[i])) }
    IN  { Limit([k \in 1..Len(s) |->
                    [id |-> s[k], similarity |-> similarity(s[k])]], limit) :
          s \in ordered }

\* f"temp_{uuid.uuid4()}.jpg": the prefix temp_ stands where the name of an
\* upload has its asset id, written 0.
TempFilename(uuid) == <<0, uuid, ".jpg">>

SearchReq(file, limit) ==
    [op |-> "search", file |-> file, limit |-> limit, temp_path |-> NULL,
     query_embedding |-> NULL, query_tags |-> <<>>, results |-> <<>>]

\* The response to a search request, with the request's limit, the path of the
\* temporary file it created (NULL when it created none) and the embedding of
\* its image.
SearchResp(r, status, detail, results, detected_tags) ==
    [op |-> "search", limit |-> r.limit, temp_path |-> r.temp_path,
     query_embedding |-> r.query_embedding, status |-> status, detail |-> detail, results |-> results,
     detected_tags |-> detected_tags, total |-> Len(results)]

\* search_by_image ends by raising e inside its try block.
SearchRaise(p, r, e) ==
    \E raised \in ExceptHandler(e) :
        /\ pc' = [pc EXCEPT ![p] = "idle"]
        /\ req' = [req EXCEPT ![p] = IdleReq]
        /\ resp' = [resp EXCEPT ![p] =
               SearchResp(r, raised.status, raised.detail, <<>>, <<>>)]

\* Step 1, up to the await: a fresh name is drawn and open(temp_path, "wb")
\* creates the temporary file, or raises and creates nothing.
SearchWriteTemp(p) ==
    /\ pc[p] = "idle"
    /\ nreq < MaxSearches
    /\ nreq' = nreq + 1
    /\ nuuid' = nuuid + 1
    /\ \E file \in Uploads, limit \in Limits :
         LET temp_path == FilePath(TempFilename(nuuid + 1)) IN
         \/ /\ files' = files \cup {temp_path}
            /\ Goto(p, [SearchReq(file, limit) EXCEPT !.temp_path = Some(temp_path)],
                    "s_read")
         \/ /\ SearchRaise(p, SearchReq(file, limit), Error("open error"))
            /\ UNCHANGED files
    /\ UNCHANGED <<assets, log, loadvars>>

\* Step 1, from the await: content = await file.read(); f.write(content).
\* When either raises the temporary file stays.
SearchRead(p) ==
    /\ pc[p] = "s_read"
    /\ \/ Goto(p, req[p], "s_embed")
       \/ SearchRaise(p, req[p], Error("read error"))
    /\ UNCHANGED <<assets, files, nreq, nuuid, log, loadvars>>

\* Step 2: image_tagger.get_image_embedding(temp_path)
SearchEmbed(p) ==
    /\ pc[p] = "s_embed"
    /\ \/ Goto(p, [req[p] EXCEPT !.query_embedding = Some(req[p].file.embedding)],
               "s_tags")
       \/ SearchRaise(p, req[p], Error("image tagger error"))
    /\ UNCHANGED <<assets, files, nreq, nuuid, log, loadvars>>

\* Step 3: image_tagger.generate_tags(temp_path)
SearchTags(p) ==
    /\ pc[p] = "s_tags"
    /\ \/ Goto(p, [req[p] EXCEPT !.query_tags = req[p].file.tags], "s_query")
       \/ SearchRaise(p, req[p], Error("image tagger error"))
    /\ UNCHANGED <<assets, files, nreq, nuuid, log, loadvars>>

\* Step 4: connect, execute the query, fetch its rows.  The server rejects a
\* negative LIMIT.
SearchQuery(p) ==
    /\ pc[p] = "s_query"
    /\ \/ SearchRaise(p, req[p], Error("database error"))
       \/ IF req[p].limit < 0
          THEN SearchRaise(p, req[p], Error("LIMIT must not be negative"))
          ELSE \E results \in ImageQuery(assets, req[p].query_embedding,
                                         req[p].limit) :
                   Goto(p, [req[p] EXCEPT !.results = results], "s_remove")
    /\ UNCHANGED <<assets, files, nreq, nuuid, log, loadvars>>

\* Step 5: os.remove(temp_path), and the response.  When the removal raises
\* the temporary file stays.
SearchRemove(p) ==
    /\ pc[p] = "s_remove"
    /\ \/ /\ files' = files \ {req[p].temp_path[1]}
          /\ pc' = [pc EXCEPT ![p] = "idle"]
          /\ req' = [req EXCEPT ![p] = IdleReq]
          /\ resp' = [resp EXCEPT ![p] =
                 SearchResp(req[p], 200, "", req[p].results, req[p].query_tags)]
       \/ /\ SearchRaise(p, req[p], Error("remove error"))
          /\ UNCHANGED files
    /\ UNCHANGED <<assets, nreq, nuuid, log, loadvars>>

\* search_similar_assets is not running.
NoSearch ==
    [state |-> "idle", query_embedding |-> NULL, limit |-> 0, rows |-> <<>>,
     error |-> ""]

\* The row search_similar_assets returns for row i of the table.
SimilarRow(rows, i, query_embedding) ==
    [id |-> i, name |-> rows[i].name,
     similarity |-> Similarity(rows[i].embedding, query_embedding)]

\* The rows of the set ids in the order of ORDER BY embedding <=> :q.  ORDER BY
\* names no second key, so rows of equal distance come in any order.
ByDistance(rows, ids, query_embedding) ==
    { s \in Enumerations(ids) :
        \A i, j \in 1..Len(s) :
            i < j => ~AscBefore(CosineDistance(rows[s[j]].embedding, query_embedding),
                                CosineDistance(rows[s[i]].embedding, query_embedding)) }

\* The query run by scanning the table and sorting: every row, those without
\* an embedding (NULL distance) last.
SeqScan(rows, query_embedding) == ByDistance(rows, 1..Len(rows), query_embedding)

\* The query run on assets_embedding_idx, the ivfflat index init_db creates on
\* the empty table with lists = 100: the scan visits the rows of the lists it
\* probes only, some of the rows that have an embedding, in distance order.
IndexScan(rows, query_embedding) ==
    UNION { ByDistance(rows, probed, query_embedding) :
            probed \in SUBSET {i \in 1..Len(rows) : rows[i].embedding # NULL} }

\* What the query of search_similar_assets can return, for limit >= 0.
SimilarQuery(rows, query_embedding, limit) ==
    { Limit([k \in 1..Len(s) |-> SimilarRow(rows, s[k], query_embedding)], limit) :
      s \in SeqScan(rows, query_embedding) \cup IndexScan(rows, query_embedding) }

\* search_similar_assets(query, limit) is called: model.encode(query).
SimilarEncode ==
    /\ search.state # "encoded"
    /\ nreq < MaxSearches
    /\ nreq' = nreq + 1
    /\ \E query \in Queries, limit \in Limits :
         \/ search' = [NoSearch EXCEPT !.state = "encoded", !.limit = limit,
                           !.query_embedding = Some(Encode(<<query>>))]
         \/ search' = [NoSearch EXCEPT !.state = "raised", !.limit = limit,
                           !.error = "encode"]
    /\ UNCHANGED <<assets, files, pc, req, resp, nuuid, log>>
    /\ UNCHANGED <<lpc, n_assets, idx, asset, embedding, coords, session,
                   tx_aborted, table, out, clock, max_retries, attempt, calls,
                   return_to, steps, geocoded_at>>

\* session.execute of the query, and the list of row dicts.  No exception is
\* caught.  The server rejects a negative LIMIT.
SimilarExecute ==
    /\ search.state = "encoded"
    /\ \/ search' = [search EXCEPT !.state = "raised", !.error = "database error"]
       \/ IF search.limit < 0
          THEN search' = [search EXCEPT !.state = "raised",
                              !.error = "LIMIT must not be negative"]
          ELSE \E rows \in SimilarQuery(table, search.query_embedding,
                                        search.limit) :
                   search' = [search EXCEPT !.state = "returned", !.rows = rows]
    /\ UNCHANGED <<imgvars, lpc, n_assets, idx, asset, embedding, coords, session,
                   tx_aborted, table, out, clock, max_retries, attempt, calls,
                   return_to, steps, geocoded_at>>

-----------------------------------------------------------------------------
(* Specifications of the image API *)

\* A row as ingestion leaves it: the list columns NULL or empty.
FreshRows ==
    { [images |-> NULL, tags |-> NULL, image_embeddings |-> NULL],
      [images |-> Some(<<>>), tags |-> Some(<<>>), image_embeddings |-> NULL] }

\* The image record the k-th earlier upload of "a.jpg" to asset 1 left.
StockedImage(k) ==
    ImageData(UniqueFilename(1, k, "a.jpg"),
              CHOOSE up \in Uploads : up.filename = "a.jpg")

\* The images list of asset 1 after three uploads without auto-tagging.
StockedImages == <<StockedImage(1), StockedImage(2), StockedImage(3)>>

\* The server starts on rows as ingestion left them, or on a table where
\* asset 1 holds the images of three earlier uploads, their files in the
\* upload directory.
ImgInit ==
    /\ \/ /\ \E row \in FreshRows : assets = [a \in StoredIds |-> row]
          /\ files = {}
          /\ nuuid = 0
          /\ log = <<>>
       \/ /\ assets = [a \in StoredIds |->
                          IF a = 1
                          THEN AppendImage(AppendImage(AppendImage(
                                   [images |-> NULL, tags |-> NULL,
                                    image_embeddings |-> NULL],
                                   <<StockedImages[1]>>, <<>>, NULL),
                                   <<StockedImages[2]>>, <<>>, NULL),
                                   <<StockedImages[3]>>, <<>>, NULL)
                          ELSE [images |-> NULL, tags |-> NULL,
                                image_embeddings |-> NULL]]
          /\ files = { UrlToPath(StockedImages[k].url) : k \in DOMAIN StockedImages }
          /\ nuuid = Len(StockedImages)
          /\ log = [k \in DOMAIN StockedImages |->
                       [op |-> "upload", asset_id |-> 1,
                        image |-> StockedImages[k], image_index |-> 0]]
    /\ pc = [p \in Workers |-> "idle"]
    /\ req = [p \in Workers |-> IdleReq]
    /\ resp = [p \in Workers |-> NoResp]
    /\ nreq = 0

\* The loader is not running.
LoadIdle ==
    /\ lpc = "idle"
    /\ n_assets = 0
    /\ idx = 1
    /\ asset = NoAsset
    /\ embedding = NULL
    /\ coords = NULL
    /\ session = <<>>
    /\ tx_aborted = FALSE
    /\ table = <<>>
    /\ out = <<>>
    /\ clock = 0
    /\ max_retries = DefaultMaxRetries
    /\ attempt = 0
    /\ calls = <<>>
    /\ return_to = "insert"
    /\ steps = <<>>
    /\ geocoded_at = NULL
    /\ search = NoSearch

Init == ImgInit /\ LoadIdle

Quiescent == \A p \in Workers : pc[p] = "idle"

Receive(p) == UploadSelect(p) \/ DeleteSelect(p) \/ GetAssetImages(p)

Continue(p) ==
    \/ UploadWriteFile(p)
    \/ UploadRead(p)
    \/ UploadTag(p)
    \/ UploadUpdate(p)
    \/ DeleteExists(p)
    \/ DeleteRemove(p)
    \/ DeleteUpdate(p)

\* Requests handled concurrently.
Next == \E p \in Workers : Receive(p) \/ Continue(p)

Spec == Init /\ [][Next]_vars

\* Requests handled one at a time.
NextSeq == \E p \in Workers : (Quiescent /\ Receive(p)) \/ Continue(p)

SpecSeq == Init /\ [][NextSeq]_vars

-----------------------------------------------------------------------------
(* Specifications of the data loader *)

\* No image request is served.
ImgIdle ==
    /\ assets = [a \in StoredIds |-> [images |-> NULL, tags |-> NULL,
                                      image_embeddings |-> NULL]]
    /\ files = {}
    /\ pc = [p \in Workers |-> "idle"]
    /\ req = [p \in Workers |-> IdleReq]
    /\ resp = [p \in Workers |-> NoResp]
    /\ nreq = 0
    /\ nuuid = 0
    /\ log = <<>>

\* load_assets_from_json on a batch of n_assets records, the session opened.
LoadInit ==
    /\ ImgIdle
    /\ lpc = "loop"
    /\ n_assets \in 0..MaxBatch
    /\ idx = 1
    /\ asset = NoAsset
    /\ embedding = NULL
    /\ coords = NULL
    /\ session = <<>>
    /\ tx_aborted = FALSE
    /\ table = <<>>
    /\ out = <<>>
    /\ clock = 0
    /\ max_retries = DefaultMaxRetries
    /\ attempt = 0
    /\ calls = <<>>
    /\ return_to = "insert"
    /\ steps = <<>>
    /\ geocoded_at = NULL
    /\ search = NoSearch

NextLoad == LoadRecord \/ GeocodeAttempt \/ Insert \/ Commit

SpecLoad == LoadInit /\ [][NextLoad]_vars

\* geocode_address called on its own, with any max_retries.
GeoInit ==
    /\ ImgIdle
    /\ lpc = "geocode"
    /\ n_assets = 0
    /\ idx = 1
    /\ asset = NoAsset
    /\ embedding = NULL
    /\ coords = NULL
    /\ session = <<>>
    /\ tx_aborted = FALSE
    /\ table = <<>>
    /\ out = <<>>
    /\ clock = 0
    /\ max_retries \in 0..MaxRetriesArg
    /\ attempt = 0
    /\ calls = <<>>
    /\ return_to = "returned"
    /\ steps = <<>>
    /\ geocoded_at = NULL
    /\ search = NoSearch

NextGeo == GeocodeAttempt

SpecGeo == GeoInit /\ [][NextGeo]_vars

-----------------------------------------------------------------------------
(* Specification of the searches *)

\* The assets table holds the rows SearchIds, each with or without an image
\* embedding and a text embedding (the same vector in both columns); no
\* request is in progress and the loader is not running.
SearchInit ==
    /\ \E e \in [SearchIds -> {NULL} \cup {Some(v) : v \in Vectors}] :
         /\ assets = [a \in SearchIds |->
                         [images |-> NULL, tags |-> NULL, image_embeddings |-> e[a]]]
         /\ table = [a \in SearchIds |->
                        InsertRow(CHOOSE r \in Records : "category" \in DOMAIN r.fields,
                                  e[a], NULL)]
    /\ files = {}
    /\ pc = [p \in Workers |-> "idle"]
    /\ req = [p \in Workers |-> IdleReq]
    /\ resp = [p \in Workers |-> NoResp]
    /\ nreq = 0
    /\ nuuid = 0
    /\ log = <<>>
    /\ lpc = "done"
    /\ n_assets = 0
    /\ idx = 1
    /\ asset = NoAsset
    /\ embedding = NULL
    /\ coords = NULL
    /\ session = <<>>
    /\ tx_aborted = FALSE
    /\ out = <<>>
    /\ clock = 0
    /\ max_retries = DefaultMaxRetries
    /\ attempt = 0
    /\ calls = <<>>
    /\ return_to = "insert"
    /\ steps = <<>>
    /\ geocoded_at = NULL
    /\ search = NoSearch

\* Searches of both kinds, handled concurrently.
NextSearch ==
    \/ \E p \in Workers :
         \/ SearchWriteTemp(p)
         \/ SearchRead(p)
         \/ SearchEmbed(p)
         \/ SearchTags(p)
         \/ SearchQuery(p)
         \/ SearchRemove(p)
    \/ SimilarEncode
    \/ SimilarExecute

SpecSearch == SearchInit /\ [][NextSearch]_vars

-----------------------------------------------------------------------------
(* Properties of the image API *)

Last(s) == s[Len(s)]

\* The list a row's images column stands for.
ImagesOf(a) == OrElse(assets[a].images, <<>>)

\* A logged mutation can be applied to the list l, and the list it leaves.
Applies(l, m) ==
    m.op = "upload" \/ (m.image_index < Len(l) /\ PyPos(l, m.image_index) # 0)
Applied(l, m) ==
    IF m.op = "upload" THEN Append(l, m.image) ELSE Pop(l, m.image_index)

\* The lists that applying the logged mutations ms (positions of log), one
\* after the other in some order, each with success, leaves of the list l.
RECURSIVE SerialResults(_, _)
SerialResults(l, ms) ==
    IF ms = {} THEN {l}
    ELSE UNION { IF Applies(l, log[i])
                 THEN SerialResults(Applied(l, log[i]), ms \ {i})
                 ELSE {} : i \in ms }

\* C1: for any interleaving of concurrent image-list mutations on one asset,
\* no committed mutation is lost: once no request is in progress, the asset's
\* images list is what the successful requests leave in some serial order
\* (stated of the deletions that name a position from the front).
C1_NoLostMutation ==
    (Quiescent /\ \A i \in 1..Len(log) : log[i].image_index >= 0) =>
        \A a \in StoredIds :
            ImagesOf(a) \in
                SerialResults(<<>>, {i \in 1..Len(log) : log[i].asset_id = a})

\* Worker p completes its UPDATE step with success in this step.
Updates(p, step) == pc[p] = step /\ pc'[p] = "idle" /\ resp'[p].status = 200

\* C2: a successful upload_image, run without concurrent requests, leaves the
\* previous images list with one element appended at the end, the image record
\* built for the upload; the previous elements keep their positions.
C2_UploadAppendsOne ==
    [][\A p \in Workers :
         Updates(p, "u_update") =>
             LET a == req[p].asset_id
                 old == ImagesOf(a)
                 new == assets'[a].images IN
             /\ new # NULL
             /\ Len(new[1]) = Len(old) + 1
             /\ new[1][Len(old) + 1] = req[p].image_data[1]
             /\ resp'[p].image = req[p].image_data
             /\ resp'[p].count = Len(old) + 1
             /\ \A j \in 1..Len(old) : new[1][j] = old[j]]_vars

\* An upload onto a list that held an image already has succeeded.
C2_Witness ==
    \E p \in Workers :
        /\ resp[p].op = "upload" /\ resp[p].status = 200 /\ resp[p].count >= 2
        /\ Last(ImagesOf(resp[p].asset_id)) = resp[p].image[1]

\* C3: a successful delete_image(asset_id, i) with 0 <= i < len(images), run
\* without concurrent requests, leaves a list one shorter, without the element
\* formerly at index i, the others in their order; remaining_images is the new
\* length.
C3_DeleteRemovesOne ==
    [][\A p \in Workers :
         LET a == req[p].asset_id
             i == req[p].image_index IN
         (Updates(p, "d_update") /\ 0 <= i /\ i < Len(ImagesOf(a))) =>
             LET old == ImagesOf(a)
                 new == assets'[a].images IN
             /\ new # NULL
             /\ Len(new[1]) = Len(old) - 1
             /\ \A j \in 1..Len(new[1]) : new[1][j] # old[i + 1]
             /\ \A j \in 1..i : new[1][j] = old[j]
             /\ \A j \in (i + 1)..Len(new[1]) : new[1][j] = old[j + 1]
             /\ resp'[p].count = Len(new[1])]_vars

\* The middle one of three images has been deleted: the first and the third
\* remain, in that order.
C3_Witness ==
    \E p \in Workers :
        /\ resp[p].op = "delete" /\ resp[p].status = 200
        /\ resp[p].image_index = 1 /\ resp[p].count = 2
        /\ ImagesOf(resp[p].asset_id) = <<StockedImages[1], StockedImages[3]>>

\* Worker p answers a request in this step (received and answered at once).
Answers(p, op) == pc[p] = "idle" /\ resp'[p] # resp[p] /\ resp'[p].op = op
                  /\ pc'[p] = "idle"

ClientError(status) == 400 <= status /\ status <= 499

\* C4: delete_image with image_index >= the asset's image count fails with an
\* index-out-of-range outcome that reaches the caller as a client input error,
\* not as the generic internal failure, and changes neither the images list
\* nor the stored files.
C4_IndexOutOfRangeIsClientError ==
    [][\A p \in Workers :
         (/\ Answers(p, "delete")
          /\ resp'[p].asset_id \in StoredIds
          /\ resp'[p].image_index >= Len(ImagesOf(resp'[p].asset_id))) =>
             /\ ClientError(resp'[p].status)
             /\ UNCHANGED <<assets, files>>]_vars

\* C5: upload_image, delete_image and get_asset_images on an asset id that is
\* not in the store fail with NotFound, which reaches the caller as NotFound,
\* and change neither the store nor the upload directory.
C5_NotFoundReachesCaller ==
    [][\A p \in Workers :
         (/\ \E op \in {"upload", "delete", "get"} : Answers(p, op)
          /\ resp'[p].asset_id \notin StoredIds) =>
             /\ resp'[p].status = 404
             /\ UNCHANGED <<assets, files>>]_vars

\* C6: an asset's image embedding is never overwritten with null: an upload
\* with auto_tag false leaves it unchanged, an upload with a new embedding
\* replaces it, and once non-null it stays non-null whatever upload_image and
\* delete_image requests follow.
C6_EmbeddingNeverNulled ==
    [][\A a \in StoredIds :
         /\ assets[a].image_embeddings # NULL =>
                assets'[a].image_embeddings # NULL
         /\ \A p \in Workers :
              (Updates(p, "u_update") /\ req[p].asset_id = a) =>
                  assets'[a].image_embeddings =
                      IF req[p].auto_tag THEN Some(req[p].file.embedding)
                      ELSE assets[a].image_embeddings
         /\ \A p \in Workers :
              (Updates(p, "d_update") /\ req[p].asset_id = a) =>
                  assets'[a].image_embeddings = assets[a].image_embeddings]_vars

\* An upload without auto-tagging has succeeded on an asset that has an image
\* embedding (file "b" is tagged "shelter" when it is auto-tagged).
C6_Witness ==
    \E p \in Workers :
        /\ resp[p].op = "upload" /\ resp[p].status = 200
        /\ resp[p].image[1].filename = "b" /\ resp[p].tags = <<>>
        /\ assets[resp[p].asset_id].image_embeddings # NULL

-----------------------------------------------------------------------------
(* Properties of the data loader *)

\* Service call c ended in a transient failure (a timeout or a service error).
TransientFailure(c) ==
    c.outcome.kind \in {"GeocoderTimedOut", "GeocoderServiceError"}

\* C7: for any max_retries >= 1 and any service outcomes, geocode_address calls
\* the service at most max_retries times, makes a further attempt only after a
\* transient failure, returns None at once when the service reports no match,
\* and returns None, without raising, when all max_retries attempts failed
\* transiently.
C7_BoundedRetry ==
    max_retries >= 1 =>
        /\ Len(calls) <= max_retries
        /\ \A k \in 1..(Len(calls) - 1) : TransientFailure(calls[k])
        /\ (calls # <<>> /\ Last(calls).outcome.kind = "none") =>
               (lpc = return_to /\ coords = NULL)
        /\ (Len(calls) = max_retries
              /\ \A k \in 1..Len(calls) : TransientFailure(calls[k])) =>
               (lpc = return_to /\ coords = NULL)

\* geocode_address has returned after two or more attempts, all of them
\* transient failures.
C7_Witness ==
    /\ lpc = "returned" /\ max_retries >= 2 /\ Len(calls) = max_retries
    /\ \A k \in 1..Len(calls) : TransientFailure(calls[k])
    /\ coords = NULL

\* The record of the current iteration has an address, so that calls are the
\* service calls made for it.
Geocoded == asset.kind = "object" /\ Truthy(Get(asset, "address", Some("")))

\* The record of the last iteration was inserted, and no other was begun.
JustInserted ==
    /\ lpc \in {"loop", "done"}
    /\ out # <<>> /\ Last(out).kind = "inserted" /\ Last(out).idx = idx - 1

\* The service failed transiently twice and then found the address.
FailFailFound ==
    /\ Geocoded /\ Len(calls) = 3
    /\ TransientFailure(calls[1]) /\ TransientFailure(calls[2])
    /\ calls[3].outcome.kind = "found"

\* C8: when the service fails transiently twice and succeeds on the third
\* attempt, geocode_address returns the third attempt's (latitude, longitude),
\* the asset is stored with that location, and delays of 2^0 and 2^1 seconds
\* precede the second and third attempts; a delay of 2^k seconds separates
\* attempt k from attempt k+1 (from 0).
C8_BackoffThenThirdAttempt ==
    /\ \A k \in 1..(Len(calls) - 1) : calls[k + 1].at - calls[k].at = 2 ^ (k - 1)
    /\ FailFailFound =>
           LET found == calls[3].outcome.location[1] IN
           /\ calls[2].at - calls[1].at = 1
           /\ calls[3].at - calls[2].at = 2
           /\ lpc = "insert" => coords = Some(<<found.latitude, found.longitude>>)
           /\ JustInserted =>
                  Last(session).location =
                      Some([latitude |-> found.latitude,
                            longitude |-> found.longitude])

\* A record geocoded at the third attempt has been inserted with a location.
C8_Witness ==
    /\ FailFailFound /\ JustInserted
    /\ Last(session).location # NULL
    /\ clock >= 4

\* C9: geocoding failure never prevents an asset from being stored: when
\* geocoding yields no coordinates (no match, retries exhausted), the asset is
\* still inserted, with its name, description, address, category, embedding
\* and metadata and with no location, and the commit keeps the session's rows.
C9_StoredWithoutLocation ==
    /\ (JustInserted /\ coords = NULL) =>
           Last(session) =
               [name |-> Get(asset, "name", Some("")),
                description |-> Get(asset, "description", Some("")),
                address |-> Get(asset, "address", Some("")),
                category |-> Get(asset, "category", Some("general")),
                location |-> NULL,
                embedding |-> embedding,
                metadata |-> asset]
    /\ (lpc \in {"loop", "done"} /\ out # <<>> /\ Last(out).kind = "error"
          /\ asset.kind = "object" /\ Last(out).idx = idx - 1) =>
           Last(out).error \in {"encode", "client_error", "server_error"}
    /\ (lpc = "done" /\ ~tx_aborted) => table = session

\* A record whose geocoding exhausted its retries has been inserted.
C9_Witness ==
    /\ JustInserted /\ Geocoded /\ coords = NULL
    /\ Len(calls) = max_retries
    /\ \A k \in 1..Len(calls) : TransientFailure(calls[k])
    /\ Last(session).location = NULL
    /\ Last(session).address = Some("123 Main St")

\* The records whose "Inserted" line was printed.
Inserted == {i \in 1..Len(out) : out[i].kind = "inserted"}

\* C10: a single bad record never aborts the batch: when a record's embedding
\* or insert fails the loader goes on with the next record, and every record
\* whose own processing did not fail is stored and part of the committed
\* result.
C10_BadRecordNeverAborts ==
    lpc = "done" =>
        /\ Len(out) = n_assets
        /\ Len(table) = Cardinality(Inserted)
        /\ table = session

\* The record's name and description are both the empty string.
EmptyText(a) ==
    /\ a.kind = "object"
    /\ Get(a, "name", Some("")) = Some("")
    /\ Get(a, "description", Some("")) = Some("")

\* The last iteration processed the record held in asset to its end.
JustProcessed ==
    lpc \in {"loop", "done"} /\ out # <<>> /\ Last(out).idx = idx - 1

\* C11: a record with empty text (empty name and empty description) is
\* rejected by embedding and is not stored: its iteration ends with the
\* embedding failure, and no stored row has an empty name and an empty
\* description (of a batch whose only empty-text record is the third, every
\* record but the third is stored).
C11_EmptyTextRejected ==
    /\ (JustProcessed /\ EmptyText(asset)) =>
           (Last(out).kind = "error" /\ Last(out).error = "encode")
    /\ \A i \in 1..Len(session) :
           ~(session[i].name = Some("") /\ session[i].description = Some(""))

\* geolocator.geocode is called in this step.
ServiceCall == lpc = "geocode" /\ calls' # calls

\* C12: in load_assets_from_json, a service call is made no sooner than one
\* second after the last service call that returned coordinates, on every
\* path, the one where the insert of the geocoded record failed included.
C12_DelayAfterGeocode ==
    [][(ServiceCall /\ geocoded_at # NULL) => clock - geocoded_at[1] >= 1]_vars

\* The order of the steps as stated (geocoding before embedding), and as
\* load_assets_from_json runs them (embedding before geocoding).
StatedOrder == <<"Parsed", "Geocoded", "Embedded", "Stored">>
CodeOrder == <<"Parsed", "Embedded", "Geocoded", "Stored">>

Rank(order, step) == CHOOSE k \in 1..Len(order) : order[k] = step

\* The steps of the current record are distinct and in the given order.
StepsFollow(order) ==
    \A i, j \in 1..Len(steps) :
        i < j => Rank(order, steps[i]) < Rank(order, steps[j])

\* What holds of the steps whatever their order: geocoding happens only for a
\* record with an address, storing only after embedding, and every row of the
\* session has a text embedding.
StepsSound ==
    /\ (\E i \in 1..Len(steps) : steps[i] = "Geocoded") => Geocoded
    /\ (\E i \in 1..Len(steps) : steps[i] = "Stored") =>
           (\E i \in 1..Len(steps) : steps[i] = "Embedded")
    /\ \A i \in 1..Len(session) : session[i].embedding # NULL

\* C19 as stated: each asset's steps occur in the order Parsed, Geocoded (only
\* when an address is present), Embedded, Stored, none of them twice; the
\* insert happens only after embedding, and every stored asset has a text
\* embedding.
C19_StepsInStatedOrder == StepsFollow(StatedOrder) /\ StepsSound

\* C19, amended: each asset's steps occur in the order Parsed, Embedded,
\* Geocoded (only when an address is present), Stored, none of them twice; the
\* insert happens only after embedding, and every stored asset has a text
\* embedding.
C19_StepsInCodeOrder == StepsFollow(CodeOrder) /\ StepsSound

\* A record with an address has passed all four steps.
C19_Witness ==
    /\ JustInserted /\ Geocoded
    /\ steps = <<"Parsed", "Embedded", "Geocoded", "Stored">>
    /\ Last(session).embedding # NULL

-----------------------------------------------------------------------------
(* delete_image and the index it is given *)

\* image_index denotes an existing position of the list.
ExistingPosition(images, image_index) ==
    0 <= image_index /\ image_index < Len(images)

\* C20: delete_image removes an image only when 0 <= image_index <
\* len(images); with any other index, a negative one included, the request
\* fails and leaves the images list and the stored files unchanged.
C20_OnlyExistingPositions ==
    [][\A p \in Workers :
         /\ (/\ Answers(p, "delete")
             /\ resp'[p].asset_id \in StoredIds
             /\ ~ExistingPosition(ImagesOf(resp'[p].asset_id),
                                  resp'[p].image_index)) =>
                (resp'[p].status # 200 /\ UNCHANGED <<assets, files>>)
         /\ (/\ pc[p] \in {"d_exists", "d_remove", "d_update"}
             /\ ~ExistingPosition(req[p].images, req[p].image_index)) =>
                /\ UNCHANGED <<assets, files>>
                /\ pc'[p] = "idle" => resp'[p].status # 200]_vars

-----------------------------------------------------------------------------
(* Properties of the searches *)

\* Worker p has answered a search_by_image request, with a result.
Searched(p) == pc[p] = "idle" /\ resp[p].op = "search"
Found(p) == Searched(p) /\ resp[p].status = 200

\* C13: no asset whose image_embeddings is NULL is among the results of
\* search_by_image, and every result has a similarity; when no asset has an
\* image embedding the result is the empty list, and the only failures are
\* those of the temporary file (its creation and its removal), of the upload's
\* read, of the tagger and of the database.
C13_NoNullImageEmbedding ==
    \A p \in Workers :
        /\ Found(p) =>
               /\ \A k \in 1..Len(resp[p].results) :
                      /\ assets[resp[p].results[k].id].image_embeddings # NULL
                      /\ resp[p].results[k].similarity # NULL
               /\ (\A a \in DOMAIN assets : assets[a].image_embeddings = NULL) =>
                      (resp[p].results = <<>> /\ resp[p].total = 0)
        /\ (Searched(p) /\ resp[p].status # 200) =>
               resp[p].detail \in {"open error", "read error", "remove error",
                                   "image tagger error",
                                   "database error",
                                   "LIMIT must not be negative"}

\* A search with room for two rows has returned the one asset that has an
\* image embedding.
C13_Witness ==
    \E p \in Workers :
        /\ Found(p) /\ resp[p].limit = 2 /\ resp[p].total = 1
        /\ \E a \in DOMAIN assets : assets[a].image_embeddings = NULL

\* C14: no asset whose text embedding is NULL is among the results of
\* search_similar_assets, and no result has a NULL similarity.
C14_NoNullTextEmbedding ==
    search.state = "returned" =>
        \A k \in 1..Len(search.rows) :
            /\ table[search.rows[k].id].embedding # NULL
            /\ search.rows[k].similarity # NULL

\* The rows of a result that have a similarity are in non-increasing order of
\* it, the result has at most limit rows, and no asset with the embedding that
\* was left out is more similar to the query than a row of the result;
\* similarity_of[a] is the similarity of asset a, NULL when it has no embedding.
Ranked(results, limit, similarity_of) ==
    /\ Len(results) <= limit
    /\ \A i, j \in 1..Len(results) :
           (i < j /\ results[i].similarity # NULL /\ results[j].similarity # NULL)
               => results[i].similarity[1] >= results[j].similarity[1]
    /\ \A a \in DOMAIN similarity_of, k \in 1..Len(results) :
           (/\ similarity_of[a] # NULL
            /\ results[k].similarity # NULL
            /\ \A j \in 1..Len(results) : results[j].id # a)
               => similarity_of[a][1] <= results[k].similarity[1]

\* C15: the results of search_by_image and of search_similar_assets are in
\* non-increasing order of similarity (1 - cosine distance), hold at most
\* limit rows, and are the top-ranked candidates.
C15_RankedTopK ==
    /\ \A p \in Workers :
           Found(p) =>
               Ranked(resp[p].results, resp[p].limit,
                      [a \in DOMAIN assets |->
                          Similarity(assets[a].image_embeddings,
                                     resp[p].query_embedding)])
    /\ search.state = "returned" =>
           Ranked(search.rows, search.limit,
                  [i \in 1..Len(table) |->
                      Similarity(table[i].embedding, search.query_embedding)])

\* Rows of equal similarity are in ascending order of id.
TiesById(results) ==
    \A i, j \in 1..Len(results) :
        (i < j /\ results[i].similarity = results[j].similarity)
            => results[i].id < results[j].id

\* C16: ranking is deterministic: among candidates of equal similarity the
\* one with the smaller id comes first, in search_by_image and in
\* search_similar_assets, so that the same store, query and limit give the
\* same sequence.
C16_TiesById ==
    /\ \A p \in Workers : Found(p) => TiesById(resp[p].results)
    /\ search.state = "returned" => TiesById(search.rows)

\* C17: a limit <= 0 is rejected with an invalid-input error by
\* search_by_image (a client error) and by search_similar_assets (a raise); no
\* result list, empty or not, is returned for it.
C17_NonPositiveLimitRejected ==
    /\ \A p \in Workers :
           (Searched(p) /\ resp[p].limit <= 0) => ClientError(resp[p].status)
    /\ (search.state \in {"returned", "raised"} /\ search.limit <= 0) =>
           search.state = "raised"

\* C18: the temporary query image is gone once search_by_image has ended,
\* whether it succeeded or failed in embedding, tagging or the query.
C18_TempFileDiscarded ==
    \A p \in Workers :
        (Searched(p) /\ resp[p].temp_path # NULL) =>
            resp[p].temp_path[1] \notin files

-----------------------------------------------------------------------------
(* Files and image records *)

\* The paths of the files the image records of the assets table name.
RecordedPaths ==
    UNION { { UrlToPath(ImagesOf(a)[k].url) : k \in 1..Len(ImagesOf(a)) } :
            a \in DOMAIN assets }

\* C21: stored files and image records stay consistent: whenever no request
\* is in progress, a file is in the upload directory if and only if its record
\* is in the images list of its asset, also after requests that failed midway.
C21_FilesMatchRecords == Quiescent => files = RecordedPaths


\* A step of the delete_image handler of worker p.
DeleteStep(p) ==
    \/ Answers(p, "delete")
    \/ pc[p] \in {"d_exists", "d_remove", "d_update"} /\ pc'[p] # pc[p]

\* Asset a is in every result of search_by_image that has room for all rows.
Eligible(store, a) ==
    \A up \in Uploads :
        \A results \in ImageQuery(store, Some(up.embedding),
                                  Cardinality(DOMAIN store)) :
            \E k \in 1..Len(results) : results[k].id = a

\* C22: a step of delete_image changes nothing but the images list of the
\* addressed asset: the tags and image_embeddings of that asset and every
\* field of every other asset are unchanged; an asset whose images were all
\* deleted keeps its image embedding and stays among the results of
\* search_by_image.
C22_DeleteChangesImagesOnly ==
    [][\A p \in Workers :
         DeleteStep(p) =>
             /\ \A a \in DOMAIN assets :
                    /\ assets'[a].tags = assets[a].tags
                    /\ assets'[a].image_embeddings = assets[a].image_embeddings
                    /\ a # req[p].asset_id => assets'[a] = assets[a]
             /\ \A a \in DOMAIN assets :
                    (assets[a].image_embeddings # NULL /\ assets'[a].images = Some(<<>>))
                        => (HasImageEmbedding(assets'[a]) /\ Eligible(assets', a))]_vars

\* The last image of an asset that has an image embedding has been deleted.
C22_Witness ==
    \E p \in Workers :
        /\ resp[p].op = "delete" /\ resp[p].status = 200 /\ resp[p].count = 0
        /\ ImagesOf(resp[p].asset_id) = <<>>
        /\ assets[resp[p].asset_id].image_embeddings # NULL
        /\ Eligible(assets, resp[p].asset_id)

====
